---------------------------- MODULE Spec2Model ----------------------------
(***************************************************************************)
(* Model of the health-analysis pipeline of Ritesh2351235/health-agent:    *)
(* HealthCoordinator.run_analysis (src/coordinator.py), the MemoryManager  *)
(* store operations it calls (src/health_agents/memory_manager.py), the    *)
(* telemetry fetch (src/health_agents/user_profile.py) and the three stage *)
(* adapters the coordinator invokes.                                       *)
(*                                                                         *)
(* A run is a coroutine; every await of run_analysis is one step.  The     *)
(* store, the telemetry source, the inference capability and the audit     *)
(* files are the environment: each call may succeed or fail, and the       *)
(* number of injected failures per behaviour is bounded by MaxFaults.      *)
(***************************************************************************)
EXTENDS Integers, Sequences, FiniteSets, TLC

\* ------------------------------------------------------------------ bounds

\* Upper bound on the environment failures injected in one behaviour.
MaxFaults == 3

\* ---------------------------------------------------------------- universe

Users == {"u1", "u2"}
Runs == {"r1", "r2"}

\* Python's None, and SQL NULL in a memory row.
None == [kind |-> "None"]

\* The six archetype labels (keys of archetype_columns and ARCHETYPE_PROMPTS).
archetype_columns ==
    [x \in {"Transformation Seeker", "Systematic Improver", "Peak Performer",
            "Resilience Rebuilder", "Connected Explorer", "Foundation Builder"} |->
        CASE x = "Transformation Seeker" -> "transformation_seeker_plan"
          [] x = "Systematic Improver"   -> "systematic_improver_plan"
          [] x = "Peak Performer"        -> "peak_performer_plan"
          [] x = "Resilience Rebuilder"  -> "resilience_rebuilder_plan"
          [] x = "Connected Explorer"    -> "connected_explorer_plan"
          [] x = "Foundation Builder"    -> "foundation_builder_plan"]

\* run_analysis(self, days: int = 7): the callers pass nothing, an int, or
\* (main_api.py, run_analysis(archetype)) the archetype label the user chose,
\* which lands in the position of days.
DaysInputs == {[kind |-> "int", value |-> "7"]}
              \cup {[kind |-> "str", value |-> a] : a \in DOMAIN archetype_columns}

\* The columns of the memory table that the INSERT of create_user_memory does
\* not name, at the defaults of the table: the results are NULL, the counter of
\* analyses is 0 and the timestamps (0 here) are not set.
memory_defaults ==
    [last_analysis_result |-> None, analysis_insights |-> None,
     last_nutrition_plan |-> None, last_routine_plan |-> None,
     last_behavior_analysis |-> None,
     archetype_plans |-> [c \in {archetype_columns[a] : a \in DOMAIN archetype_columns} |-> None],
     last_archetype |-> None,
     total_analyses |-> 0,
     last_analysis_date |-> 0, nutrition_plan_date |-> 0,
     routine_plan_date |-> 0, behavior_analysis_date |-> 0]

\* A memory table row as INSERT ... ON CONFLICT DO NOTHING creates it: the five
\* context maps from the arguments, every other column at its default.
NewRow(u, prefs, goals, diet, life, med) ==
    [kind |-> "row", profile_id |-> u,
     user_preferences |-> prefs, health_goals |-> goals,
     dietary_restrictions |-> diet, lifestyle_context |-> life,
     medical_conditions |-> med] @@ memory_defaults

\* A narrative produced by an earlier run (a row that is not fresh).
PriorNarrative == [kind |-> "text", value |-> "prior analysis", len |-> 800]

PriorRow(u) ==
    [NewRow(u, {"units"}, {"sleep"}, {}, {}, {}) EXCEPT
        !.last_analysis_result = PriorNarrative,
        !.analysis_insights = [kind |-> "insights", scores_count |-> 2,
                               archetypes_count |-> 0, biomarkers_count |-> 0],
        !.total_analyses = 1]

VARIABLES
    memory,          \* the memory table: user id -> row or None (no row)
    clock,           \* the store's NOW(), a logical clock
    input_txt,       \* input.txt, the entries appended so far
    output_txt,      \* output.txt, the entries appended so far
    pc,              \* run -> position in run_analysis
    profile_id,      \* run -> HealthCoordinator.profile_id
    days,            \* run -> the days argument of run_analysis
    env_database_url,\* run -> whether DATABASE_URL is set in the environment
    connection,      \* run -> MemoryManager.connection (None or an open connection)
    user_memory,     \* run -> local user_memory
    user_context,    \* run -> local user_context (None until fetched)
    memory_context,  \* run -> local memory_context
    analysis_result, \* run -> local analysis_result
    nutrition_plan,  \* run -> local nutrition_plan
    routine_plan,    \* run -> local routine_plan
    returned,        \* run -> what run_analysis returned (Running until it returns)
    trace,           \* run -> the calls the run has made, in order
    faults,          \* environment failures injected so far
    active_processes,\* app.py: the registry, the keys id(process) of its entries
    stream_pc,       \* stream -> position in generate_analysis_stream
    process,         \* stream -> local process (None, or the Popen object)
    sent             \* stream -> output lines sent to the client so far

vars == <<memory, clock, input_txt, output_txt, pc, profile_id, days,
          env_database_url, connection, user_memory, user_context, memory_context,
          analysis_result, nutrition_plan, routine_plan, returned, trace, faults,
          active_processes, stream_pc, process, sent>>

store == <<memory, clock>>
files == <<input_txt, output_txt>>
args == <<profile_id, days, env_database_url>>
locals == <<user_memory, user_context, memory_context>>
results == <<analysis_result, nutrition_plan, routine_plan>>
server == <<active_processes, stream_pc, process, sent>>

\* run_analysis has not returned yet.
Running == [kind |-> "running"]

\* One call of the run, as recorded in trace.
Event(op, res, arg) == [op |-> op, res |-> res, arg |-> arg]

Record(r, op, res, arg) == trace' = [trace EXCEPT ![r] = Append(@, Event(op, res, arg))]

\* The environment may inject one more failure.
MayFail == faults < MaxFaults

\* ok is TRUE for a call that succeeds; a failing call uses up one fault.
Outcome(ok) ==
    /\ ok \/ MayFail
    /\ faults' = IF ok THEN faults ELSE faults + 1

\* ------------------------------------------------------------ construction

\* The state after HealthCoordinator(profile_id, database_url) is constructed
\* for each run in active, which is about to execute start; the other runs
\* never start.
InitFor(active, start, daysInputs) ==
    /\ memory \in [Users -> {None}] \cup {[u \in Users |-> NewRow(u, {}, {}, {}, {}, {})]}
                 \cup {[u \in Users |-> PriorRow(u)]}
    /\ clock = 1
    /\ input_txt = <<>>
    /\ output_txt = <<>>
    /\ pc = [r \in Runs |-> IF r \in active THEN start ELSE "idle"]
    /\ profile_id \in [Runs -> Users]
    /\ \A r \in Runs \ active : profile_id[r] = "u1"
    /\ days \in [Runs -> daysInputs]
    /\ \A r \in Runs \ active : days[r].kind = "int"
    /\ env_database_url \in [Runs -> BOOLEAN]
    /\ \A r \in Runs \ active : env_database_url[r]
    /\ connection = [r \in Runs |-> None]
    /\ user_memory = [r \in Runs |-> None]
    /\ user_context = [r \in Runs |-> None]
    /\ memory_context = [r \in Runs |-> <<>>]
    /\ analysis_result = [r \in Runs |-> None]
    /\ nutrition_plan = [r \in Runs |-> None]
    /\ routine_plan = [r \in Runs |-> None]
    /\ returned = [r \in Runs |-> Running]
    /\ trace = [r \in Runs |-> <<>>]

\* The streams of the web server.
Streams == {"s1", "s2"}

\* The state of the server when each stream in requested is about to start
\* and the others are never requested.
ServerInit(requested) ==
    /\ active_processes = {}
    /\ stream_pc = [s \in Streams |-> IF s \in requested THEN "popen" ELSE "idle"]
    /\ process = [s \in Streams |-> None]
    /\ sent = [s \in Streams |-> 0]

\* The same, with days one of the arguments the callers pass and no stream
\* requested.
InitWith(active, start) == InitFor(active, start, DaysInputs) /\ ServerInit({})

Init == InitWith({"r1"}, "connect") /\ faults = 0

\* ------------------------------------------------------- continuity store

\* An open asyncpg connection held in MemoryManager.connection.
Open == [kind |-> "connection"]

\* get_user_memory: the UserMemory built from the row (NULL maps become {},
\* a NULL counter becomes 0), None when there is no row or the read fails.
get_user_memory(table, u, ok) ==
    IF ok /\ table[u] # None
    THEN [table[u] EXCEPT
            !.kind = "UserMemory",
            !.analysis_insights = IF @ = None THEN [kind |-> "insights_empty"] ELSE @]
    ELSE None

\* Mutant of create_user_memory: the INSERT replaces a row that exists
\* (ON CONFLICT DO UPDATE).
create_user_memory_Upsert(table, u, prefs, goals, diet, life, med, ok) ==
    IF ok THEN [table EXCEPT ![u] = NewRow(u, prefs, goals, diet, life, med)] ELSE table

\* Mutant of create_user_memory: the context maps of the caller are not stored.
create_user_memory_DropsSeed(table, u, prefs, goals, diet, life, med, ok) ==
    IF ok /\ table[u] = None
    THEN [table EXCEPT ![u] = NewRow(u, {}, {}, {}, {}, {})]
    ELSE table

\* create_user_memory: INSERT ... ON CONFLICT (profile_id) DO NOTHING.
create_user_memory(table, u, prefs, goals, diet, life, med, ok) ==
    IF ok /\ table[u] = None
    THEN [table EXCEPT ![u] = NewRow(u, prefs, goals, diet, life, med)]
    ELSE table

\* Mutant of update_analysis_result: the counter is not incremented.
update_analysis_result_NoIncrement(table, u, text, insights, now, ok) ==
    IF ok /\ table[u] # None
    THEN [table EXCEPT ![u] = [@ EXCEPT !.last_analysis_result = text,
                                        !.analysis_insights = insights,
                                        !.last_analysis_date = now]]
    ELSE table

\* Mutant of update_analysis_result: an UPDATE without its WHERE clause, which
\* patches the row of every user.
update_analysis_result_AllRows(table, u, text, insights, now, ok) ==
    IF ok
    THEN [v \in DOMAIN table |->
            IF table[v] = None THEN None
            ELSE [table[v] EXCEPT !.last_analysis_result = text,
                                  !.analysis_insights = insights,
                                  !.last_analysis_date = now,
                                  !.total_analyses = @ + 1]]
    ELSE table

\* Mutant of update_analysis_result: the insights of the analysis are not
\* stored with its text.
update_analysis_result_TextOnly(table, u, text, insights, now, ok) ==
    IF ok /\ table[u] # None
    THEN [table EXCEPT ![u] = [@ EXCEPT !.last_analysis_result = text,
                                        !.last_analysis_date = now,
                                        !.total_analyses = @ + 1]]
    ELSE table

\* update_analysis_result: UPDATE ... SET last_analysis_result, analysis_insights,
\* last_analysis_date = NOW(), total_analyses = total_analyses + 1.
update_analysis_result(table, u, text, insights, now, ok) ==
    IF ok /\ table[u] # None
    THEN [table EXCEPT ![u] = [@ EXCEPT !.last_analysis_result = text,
                                        !.analysis_insights = insights,
                                        !.last_analysis_date = now,
                                        !.total_analyses = @ + 1]]
    ELSE table

\* Mutant of update_nutrition_plan: a failing update undoes the analysis
\* stored before it.
update_nutrition_plan_Rollback(table, u, plan, now, ok) ==
    IF table[u] = None THEN table
    ELSE IF ok
         THEN [table EXCEPT ![u] = [@ EXCEPT !.last_nutrition_plan = plan,
                                             !.nutrition_plan_date = now]]
         ELSE [table EXCEPT ![u] = [@ EXCEPT !.last_analysis_result = None]]

\* update_nutrition_plan: UPDATE ... SET last_nutrition_plan, nutrition_plan_date.
update_nutrition_plan(table, u, plan, now, ok) ==
    IF ok /\ table[u] # None
    THEN [table EXCEPT ![u] = [@ EXCEPT !.last_nutrition_plan = plan,
                                        !.nutrition_plan_date = now]]
    ELSE table

\* update_routine_plan: UPDATE ... SET last_routine_plan, routine_plan_date.
update_routine_plan(table, u, plan, now, ok) ==
    IF ok /\ table[u] # None
    THEN [table EXCEPT ![u] = [@ EXCEPT !.last_routine_plan = plan,
                                        !.routine_plan_date = now]]
    ELSE table

\* Mutant of update_behavior_analysis: the behavior patch counts as an analysis.
update_behavior_analysis_Counts(table, u, analysis, now, ok) ==
    IF ok /\ table[u] # None
    THEN [table EXCEPT ![u] = [@ EXCEPT !.last_behavior_analysis = analysis,
                                        !.behavior_analysis_date = now,
                                        !.total_analyses = @ + 1]]
    ELSE table

\* update_behavior_analysis: UPDATE ... SET last_behavior_analysis,
\* behavior_analysis_date.
update_behavior_analysis(table, u, analysis, now, ok) ==
    IF ok /\ table[u] # None
    THEN [table EXCEPT ![u] = [@ EXCEPT !.last_behavior_analysis = analysis,
                                        !.behavior_analysis_date = now]]
    ELSE table

\* A str argument (None is passed as None).
Str(v) == [kind |-> "str", value |-> v]

\* "archetype not in archetype_columns" is false.
KnownArchetype(archetype) ==
    archetype # None /\ archetype.value \in DOMAIN archetype_columns

\* column_name = archetype_columns[archetype]
column_name(archetype) == archetype_columns[archetype.value]

\* Mutant of update_archetype_routine_plan: a label that is not recognized
\* falls back to the generic routine plan column.
update_archetype_routine_plan_Fallback(table, u, archetype, plan, now, ok) ==
    IF ok /\ table[u] # None
    THEN [table EXCEPT ![u] =
             IF KnownArchetype(archetype)
             THEN [@ EXCEPT !.archetype_plans[column_name(archetype)] = plan,
                            !.last_archetype = archetype,
                            !.routine_plan_date = now]
             ELSE [@ EXCEPT !.last_routine_plan = plan,
                            !.routine_plan_date = now]]
    ELSE table

\* Mutant of update_archetype_routine_plan: the plan is stored in the generic
\* routine plan column as well.
update_archetype_routine_plan_AlsoGeneric(table, u, archetype, plan, now, ok) ==
    IF KnownArchetype(archetype) /\ ok /\ table[u] # None
    THEN [table EXCEPT ![u] =
             [@ EXCEPT !.archetype_plans[column_name(archetype)] = plan,
                       !.last_routine_plan = plan,
                       !.last_archetype = archetype,
                       !.routine_plan_date = now]]
    ELSE table

\* update_archetype_routine_plan: for a label that is not a key of
\* archetype_columns nothing is executed and False is returned; otherwise
\* UPDATE ... SET <column of the label>, last_archetype, routine_plan_date.
update_archetype_routine_plan(table, u, archetype, plan, now, ok) ==
    IF KnownArchetype(archetype) /\ ok /\ table[u] # None
    THEN [table EXCEPT ![u] =
             [@ EXCEPT !.archetype_plans[column_name(archetype)] = plan,
                       !.last_archetype = archetype,
                       !.routine_plan_date = now]]
    ELSE table

\* What update_archetype_routine_plan returns.
update_archetype_routine_plan_result(archetype, ok) ==
    IF KnownArchetype(archetype) /\ ok THEN "ok" ELSE "failed"

\* Python truth of an Optional[str] argument: None and "" are false.
Truthy(x) == x # None /\ x.value # ""

\* update_analysis_results: "if selected_archetype:" chooses the update that
\* stores the routine plan.
RoutineTarget(selected_archetype) ==
    IF Truthy(selected_archetype) THEN "update_archetype_routine_plan"
                                  ELSE "update_routine_plan"

\* update_analysis_results: the updates of the results that are given, one
\* after the other; the result of each update is ignored.
update_analysis_results(table, u, analysis, nutrition, routine, behavior, selected_archetype, now, ok) ==
    LET t1 == IF analysis # None
              THEN update_analysis_result(table, u, analysis, [kind |-> "insights_empty"], now, ok)
              ELSE table
        t2 == IF nutrition # None THEN update_nutrition_plan(t1, u, nutrition, now, ok) ELSE t1
        t3 == IF routine = None THEN t2
              ELSE IF RoutineTarget(selected_archetype) = "update_archetype_routine_plan"
                   THEN update_archetype_routine_plan(t2, u, selected_archetype, routine, now, ok)
                   ELSE update_routine_plan(t2, u, routine, now, ok)
    IN  IF behavior # None THEN update_behavior_analysis(t3, u, behavior, now, ok) ELSE t3

\* NOW() after a statement that stamped a row.
Tick(before, after, now) == IF after # before THEN now + 1 ELSE now

\* format_memory_context: the parts of the context string, in the order the
\* code appends them; the previous analysis is cut to its first 500 characters.
PrefixLen == 500

Truncate(text) ==
    [text EXCEPT !.len = IF @ > PrefixLen THEN PrefixLen ELSE @]

Part(label, present, value) ==
    IF present THEN <<[label |-> label, value |-> value]>> ELSE <<>>

format_memory_context(m) ==
    Part("User Preferences", m.user_preferences # {}, m.user_preferences)
    \o Part("Health Goals", m.health_goals # {}, m.health_goals)
    \o Part("Dietary Restrictions", m.dietary_restrictions # {}, m.dietary_restrictions)
    \o Part("Lifestyle Context", m.lifestyle_context # {}, m.lifestyle_context)
    \o Part("Medical Conditions", m.medical_conditions # {}, m.medical_conditions)
    \o Part("Previous Analysis", m.last_analysis_result # None,
            IF m.last_analysis_result # None THEN Truncate(m.last_analysis_result) ELSE None)
    \o Part("Analysis Insights", m.analysis_insights.kind # "insights_empty", m.analysis_insights)
    \o Part("Previous Behavior Analysis", m.last_behavior_analysis # None, m.last_behavior_analysis)
    \o Part("Total Previous Analyses", TRUE, m.total_analyses)

\* --------------------------------------------------------- stage adapters

\* The inference capability (Runner.run) raised.
InferenceError == [kind |-> "InferenceError"]

\* The telemetry rows a non-empty collection holds.
RowsFetched == 12

\* format_user_data_for_analysis lists at most the first 10 of each collection.
PromptLimit == 10

Listed(n) == IF n > PromptLimit THEN PromptLimit ELSE n

\* The request analyze_metrics passes to the inference capability.
format_user_data_for_analysis(context, mem_context) ==
    [user_id |-> context.user_id, days |-> context.days,
     scores |-> context.scores, scores_listed |-> Listed(context.scores),
     archetypes |-> context.archetypes, archetypes_listed |-> Listed(context.archetypes),
     biomarkers |-> context.biomarkers, biomarkers_listed |-> Listed(context.biomarkers),
     memory |-> mem_context]

\* analyze_metrics: the inference output, or, when the inference call raises,
\* the string "Error during metric analysis: ..." returned as an ordinary result.
analyze_metrics(context, mem_context, reply) ==
    IF reply = InferenceError
    THEN [kind |-> "text", value |-> "Error during metric analysis", len |-> 40]
    ELSE reply

MealBlocks == {"Early_Morning", "Breakfast", "Morning_Snack", "Lunch",
               "Afternoon_Snack", "Dinner", "Evening_Snack"}

\* create_nutrition_plan: the inference output, or, when the inference call
\* raises, a NutritionPlanResult filled with error placeholders.
create_nutrition_plan(analysis, reply) ==
    IF reply = InferenceError
    THEN [kind |-> "NutritionPlanResult", summary |-> "Error creating nutrition plan",
          calories |-> 0, meals |-> [b \in MealBlocks |-> 1], source |-> None]
    ELSE reply

TimeBlocks == {"morning_wakeup", "focus_block", "afternoon_recharge", "evening_winddown"}

\* create_routine_plan: an unknown archetype falls back to Foundation Builder;
\* the inference output, or, when the inference call raises, a RoutinePlanResult
\* filled with error placeholders.
create_routine_plan(analysis, archetype, behavior_analysis, reply) ==
    LET selected == IF archetype \in DOMAIN archetype_columns
                    THEN archetype ELSE "Foundation Builder"
    IN  IF reply = InferenceError
        THEN [kind |-> "RoutinePlanResult", summary |-> "Error creating routine plan",
              archetype |-> selected, tasks |-> [b \in TimeBlocks |-> 1], source |-> None]
        ELSE [reply EXCEPT !.archetype = selected]

\* What the inference capability returns when it succeeds, for each adapter.
MetricReply(r) == [kind |-> "text", value |-> "analysis", len |-> 800, run |-> r]

NutritionReply(analysis) ==
    [kind |-> "NutritionPlanResult", summary |-> "plan", calories |-> 2000,
     meals |-> [b \in MealBlocks |-> 2], source |-> analysis]

RoutineReply(analysis) ==
    [kind |-> "RoutinePlanResult", summary |-> "plan", archetype |-> None,
     tasks |-> [b \in TimeBlocks |-> 3], source |-> analysis]

\* The outcome of one stage call as run_analysis sees it: the inference call
\* succeeds ("ok"), it raises inside the adapter ("fault"), or an exception
\* reaches the try block of run_analysis ("raise").
StageOutcomes == {"ok", "fault", "raise"}

Reply(out, value) == IF out = "ok" THEN value ELSE InferenceError

\* ------------------------------------------------ run_analysis: control flow

\* Mutant of StageOrder: Step 4 moved in front of Step 3.
StageOrder_Swapped == <<"metric", "routine", "nutrition", "log_output">>

\* The stages of run_analysis after the input is logged, in the order of the
\* source text (Step 2, Step 3, Step 4, output logging).
StageOrder == <<"metric", "nutrition", "routine", "log_output">>

\* Where the run continues after a stage (and its patch).
After(stage) ==
    LET i == CHOOSE k \in 1..Len(StageOrder) : StageOrder[k] = stage
    IN  StageOrder[i + 1]

\* Mutant of OnMemoryError: a failing LOAD_MEMORY ends the run.
OnMemoryError_Abort == "aborted"

\* except-branch of Step 0: user_memory = None, and the run goes on.
OnMemoryError == "fetch"

\* Mutant of OnFetchError: the return is missing and the run goes on.
OnFetchError_Continue == "log_input"

\* except-branch of Step 1: return.
OnFetchError == "aborted"

\* except-branch of Step 2: return.
OnMetricError == "aborted"

\* Mutant of OnNutritionError: the except-branch of Step 3 returns.
OnNutritionError_Abort == "aborted"

\* except-branch of Step 3: nutrition_plan = None, and the run goes on.
OnNutritionError == After("nutrition")

\* Mutant of OnRoutineError: the except-branch of Step 4 skips the output logging.
OnRoutineError_SkipLog == "disconnect"

\* except-branch of Step 4: routine_plan = None, and the run goes on.
OnRoutineError == After("routine")

\* Mutant of OnDisconnectError: the cleanup has no try and the exception
\* leaves run_analysis.
OnDisconnectError_Propagate == "raised"

\* except-branch of the cleanup: a warning, and run_analysis returns.
OnDisconnectError == "done"

\* Mutant of ShouldPersist: the memory is never updated.
ShouldPersist_Never(um) == FALSE

\* "if user_memory:" before each update of the memory.
ShouldPersist(um) == um # None

\* What run_analysis returns: both bare return statements and the end of the
\* body return None.
run_analysis_result(r) == None

\* The run moves on to target; at "done" and "aborted" run_analysis returns.
Goto(r, target) ==
    /\ pc' = [pc EXCEPT ![r] = target]
    /\ returned' = [returned EXCEPT ![r] =
            IF target \in {"done", "aborted"} THEN run_analysis_result(r) ELSE @]

\* ----------------------------------------------- run_analysis: Step 0

\* await self.memory_manager.connect()
Connect(r) ==
    /\ pc[r] = "connect"
    /\ \E ok \in BOOLEAN :
        /\ Outcome(ok)
        /\ connection' = [connection EXCEPT ![r] = IF ok THEN Open ELSE None]
        /\ Goto(r, IF ok THEN "get_user_memory" ELSE OnMemoryError)
        /\ Record(r, "connect", IF ok THEN "ok" ELSE "raised", None)
    /\ user_memory' = [user_memory EXCEPT ![r] = None]
    /\ UNCHANGED <<server, store, files, args, user_context, memory_context, results>>

\* user_memory = await self.memory_manager.get_user_memory(self.profile_id)
GetUserMemory(r) ==
    /\ pc[r] = "get_user_memory"
    /\ \E ok \in BOOLEAN :
        LET um == get_user_memory(memory, profile_id[r], ok)
        IN  /\ Outcome(ok)
            /\ user_memory' = [user_memory EXCEPT ![r] = um]
            /\ Goto(r, IF um # None THEN "fetch" ELSE "create_user_memory")
            /\ Record(r, "get_user_memory", IF ok THEN "ok" ELSE "failed",
                      [profile_id |-> profile_id[r], value |-> um])
    /\ UNCHANGED <<server, store, files, args, connection, user_context, memory_context, results>>

\* await self.memory_manager.create_user_memory(self.profile_id)
CreateUserMemory(r) ==
    /\ pc[r] = "create_user_memory"
    /\ \E ok \in BOOLEAN :
        /\ Outcome(ok)
        /\ memory' = create_user_memory(memory, profile_id[r], {}, {}, {}, {}, {}, ok)
        /\ Record(r, "create_user_memory", IF ok THEN "ok" ELSE "failed",
                  [profile_id |-> profile_id[r], value |-> None])
    /\ Goto(r, "get_user_memory_again")
    /\ UNCHANGED <<server, clock, files, args, connection, locals, results>>

\* user_memory = await self.memory_manager.get_user_memory(self.profile_id),
\* after the create.
GetUserMemoryAgain(r) ==
    /\ pc[r] = "get_user_memory_again"
    /\ \E ok \in BOOLEAN :
        LET um == get_user_memory(memory, profile_id[r], ok)
        IN  /\ Outcome(ok)
            /\ user_memory' = [user_memory EXCEPT ![r] = um]
            /\ Record(r, "get_user_memory", IF ok THEN "ok" ELSE "failed",
                      [profile_id |-> profile_id[r], value |-> um])
    /\ Goto(r, "fetch")
    /\ UNCHANGED <<server, store, files, args, connection, user_context, memory_context, results>>

\* ----------------------------------------------- run_analysis: Step 1

\* What one of fetch_scores_data, fetch_archetypes_data, fetch_biomarkers_data
\* meets: rows, no rows, or a failing query.
FetchOutcomes == {"rows", "empty", "error"}

\* The length of the list a fetch returns: a failing query is caught inside
\* the fetch and [] is returned.
fetch_data(outcome) == IF outcome = "rows" THEN RowsFetched ELSE 0

\* get_user_profile_context raises when UserProfileService() finds no
\* DATABASE_URL in the environment, or when get_date_range builds
\* timedelta(days=days) from a days that is not a number.
FetchRaises(r) == ~env_database_url[r] \/ days[r].kind # "int"

Errors(outcomes) == {c \in DOMAIN outcomes : outcomes[c] = "error"}

\* user_context = await get_user_profile_context(self.profile_id, days=days)
FetchTelemetry(r) ==
    /\ pc[r] = "fetch"
    /\ IF FetchRaises(r)
       THEN /\ Goto(r, OnFetchError)
            /\ Record(r, "get_user_profile_context", "raised", None)
            /\ UNCHANGED <<user_context, faults>>
       ELSE \E got \in [{"scores", "archetypes", "biomarkers"} -> FetchOutcomes] :
            /\ faults + Cardinality(Errors(got)) <= MaxFaults
            /\ faults' = faults + Cardinality(Errors(got))
            /\ user_context' = [user_context EXCEPT ![r] =
                    [kind |-> "UserProfileContext", user_id |-> profile_id[r],
                     scores |-> fetch_data(got.scores),
                     archetypes |-> fetch_data(got.archetypes),
                     biomarkers |-> fetch_data(got.biomarkers),
                     days |-> days[r].value]]
            /\ Goto(r, "log_input")
            /\ Record(r, "get_user_profile_context", "ok", [errors |-> Errors(got)])
    /\ UNCHANGED <<server, store, files, args, connection, user_memory, memory_context, results>>

\* A log file opened for writing from its start: the entry replaces the file.
append_entry_Truncating(file, entry) == <<entry>>

\* with open(..., "a") as f: f.write(entry): the entry is added at the end of
\* the file in one write.
append_entry(file, entry) == Append(file, entry)

\* The entry log_input_data appends to input.txt.
InputEntry(r, mem_context) ==
    [profile_id |-> profile_id[r],
     scores_count |-> user_context[r].scores,
     archetypes_count |-> user_context[r].archetypes,
     biomarkers_count |-> user_context[r].biomarkers,
     has_memory |-> user_memory[r] # None,
     total_analyses |-> IF user_memory[r] # None THEN user_memory[r].total_analyses ELSE 0,
     formatted_context |-> mem_context]

\* memory_context = format_memory_context(user_memory) if user_memory else "";
\* self.log_input_data(user_context, user_memory, memory_context), which
\* catches a failing write itself.
LogInput(r) ==
    /\ pc[r] = "log_input"
    /\ LET mem_context == IF user_memory[r] # None
                          THEN format_memory_context(user_memory[r]) ELSE <<>>
       IN  /\ memory_context' = [memory_context EXCEPT ![r] = mem_context]
           /\ \E ok \in BOOLEAN :
                /\ Outcome(ok)
                /\ input_txt' = IF ok THEN append_entry(input_txt, InputEntry(r, mem_context))
                                ELSE input_txt
                /\ Record(r, "log_input_data", IF ok THEN "ok" ELSE "failed",
                          [memory_context |-> mem_context])
    /\ Goto(r, Head(StageOrder))
    /\ UNCHANGED <<server, store, output_txt, args, connection, user_memory, user_context, results>>

\* ----------------------------------------------- run_analysis: Step 2

\* analysis_result = await analyze_user_health_metrics(user_context, memory_context)
MetricAnalysis(r) ==
    /\ pc[r] = "metric"
    /\ \E out \in StageOutcomes :
        /\ Outcome(out = "ok")
        /\ Record(r, "analyze_user_health_metrics", out,
                  format_user_data_for_analysis(user_context[r], memory_context[r]))
        /\ IF out = "raise"
           THEN /\ Goto(r, OnMetricError)
                /\ UNCHANGED analysis_result
           ELSE /\ analysis_result' = [analysis_result EXCEPT ![r] =
                        analyze_metrics(user_context[r], memory_context[r],
                                        Reply(out, MetricReply(r)))]
                /\ Goto(r, IF ShouldPersist(user_memory[r])
                           THEN "patch_analysis" ELSE After("metric"))
    /\ UNCHANGED <<server, store, files, args, connection, locals, nutrition_plan, routine_plan>>

\* analysis_insights as run_analysis builds it from user_context.
AnalysisInsights(context) ==
    [kind |-> "insights", days |-> context.days, scores_count |-> context.scores,
     archetypes_count |-> context.archetypes, biomarkers_count |-> context.biomarkers]

\* await self.memory_manager.update_analysis_result(self.profile_id,
\*     analysis_result, analysis_insights)
PatchAnalysis(r) ==
    /\ pc[r] = "patch_analysis"
    /\ \E ok \in BOOLEAN :
        /\ Outcome(ok)
        /\ memory' = update_analysis_result(memory, profile_id[r], analysis_result[r],
                        AnalysisInsights(user_context[r]), clock, ok)
        /\ clock' = Tick(memory, memory', clock)
        /\ Record(r, "update_analysis_result", IF ok THEN "ok" ELSE "failed",
                  [profile_id |-> profile_id[r], value |-> analysis_result[r]])
    /\ Goto(r, After("metric"))
    /\ UNCHANGED <<server, files, args, connection, locals, results>>

\* ----------------------------------------------- run_analysis: Step 3

\* nutrition_plan = await create_personalized_nutrition_plan(analysis_result)
NutritionPlan(r) ==
    /\ pc[r] = "nutrition"
    /\ \E out \in StageOutcomes :
        /\ Outcome(out = "ok")
        /\ Record(r, "create_personalized_nutrition_plan", out,
                  [analysis_result |-> analysis_result[r]])
        /\ IF out = "raise"
           THEN /\ nutrition_plan' = [nutrition_plan EXCEPT ![r] = None]
                /\ Goto(r, OnNutritionError)
           ELSE /\ nutrition_plan' = [nutrition_plan EXCEPT ![r] =
                        create_nutrition_plan(analysis_result[r],
                            Reply(out, NutritionReply(analysis_result[r])))]
                /\ Goto(r, IF ShouldPersist(user_memory[r])
                           THEN "patch_nutrition" ELSE After("nutrition"))
    /\ UNCHANGED <<server, store, files, args, connection, locals, analysis_result, routine_plan>>

\* await self.memory_manager.update_nutrition_plan(self.profile_id, nutrition_plan)
PatchNutrition(r) ==
    /\ pc[r] = "patch_nutrition"
    /\ \E ok \in BOOLEAN :
        /\ Outcome(ok)
        /\ memory' = update_nutrition_plan(memory, profile_id[r], nutrition_plan[r], clock, ok)
        /\ clock' = Tick(memory, memory', clock)
        /\ Record(r, "update_nutrition_plan", IF ok THEN "ok" ELSE "failed",
                  [profile_id |-> profile_id[r], value |-> nutrition_plan[r]])
    /\ Goto(r, After("nutrition"))
    /\ UNCHANGED <<server, files, args, connection, locals, results>>

\* ----------------------------------------------- run_analysis: Step 4

\* routine_plan = await create_personalized_routine_plan(analysis_result):
\* the archetype and the behavior analysis are left at their defaults.
RoutinePlan(r) ==
    /\ pc[r] = "routine"
    /\ \E out \in StageOutcomes :
        /\ Outcome(out = "ok")
        /\ Record(r, "create_personalized_routine_plan", out,
                  [analysis_result |-> analysis_result[r],
                   archetype |-> "Foundation Builder", behavior_analysis |-> None])
        /\ IF out = "raise"
           THEN /\ routine_plan' = [routine_plan EXCEPT ![r] = None]
                /\ Goto(r, OnRoutineError)
           ELSE /\ routine_plan' = [routine_plan EXCEPT ![r] =
                        create_routine_plan(analysis_result[r], "Foundation Builder", None,
                            Reply(out, RoutineReply(analysis_result[r])))]
                /\ Goto(r, IF ShouldPersist(user_memory[r])
                           THEN "patch_routine" ELSE After("routine"))
    /\ UNCHANGED <<server, store, files, args, connection, locals, analysis_result, nutrition_plan>>

\* await self.memory_manager.update_routine_plan(self.profile_id, routine_plan)
PatchRoutine(r) ==
    /\ pc[r] = "patch_routine"
    /\ \E ok \in BOOLEAN :
        /\ Outcome(ok)
        /\ memory' = update_routine_plan(memory, profile_id[r], routine_plan[r], clock, ok)
        /\ clock' = Tick(memory, memory', clock)
        /\ Record(r, "update_routine_plan", IF ok THEN "ok" ELSE "failed",
                  [profile_id |-> profile_id[r], value |-> routine_plan[r]])
    /\ Goto(r, After("routine"))
    /\ UNCHANGED <<server, files, args, connection, locals, results>>

\* ----------------------------------------------- run_analysis: output, cleanup

\* The entry log_output_data appends to output.txt.
OutputEntry(r) ==
    [profile_id |-> profile_id[r], metric_analysis |-> analysis_result[r],
     nutrition_plan |-> nutrition_plan[r], routine_plan |-> routine_plan[r]]

\* self.log_output_data(analysis_result, nutrition_plan, routine_plan), which
\* catches a failing write itself.
LogOutput(r) ==
    /\ pc[r] = "log_output"
    /\ \E ok \in BOOLEAN :
        /\ Outcome(ok)
        /\ output_txt' = IF ok THEN append_entry(output_txt, OutputEntry(r)) ELSE output_txt
        /\ Record(r, "log_output_data", IF ok THEN "ok" ELSE "failed", OutputEntry(r))
    /\ Goto(r, "disconnect")
    /\ UNCHANGED <<server, store, input_txt, args, connection, locals, results>>

\* await self.memory_manager.disconnect(): closes the connection if there is one.
Disconnect(r) ==
    /\ pc[r] = "disconnect"
    /\ IF connection[r] = None
       THEN /\ Goto(r, "done")
            /\ Record(r, "disconnect", "no connection", None)
            /\ UNCHANGED faults
       ELSE \E ok \in BOOLEAN :
            /\ Outcome(ok)
            /\ Goto(r, IF ok THEN "done" ELSE OnDisconnectError)
            /\ Record(r, "disconnect", IF ok THEN "ok" ELSE "raised", None)
    /\ UNCHANGED <<server, store, files, args, connection, locals, results>>

\* ------------------------------------------- MemoryManager: direct calls

\* Bound on the calls a client makes on its MemoryManager.
MaxCalls == 2

\* The context maps a caller of create_user_memory passes (None is stored as {}).
SeedContexts ==
    {[user_preferences |-> p, health_goals |-> g, dietary_restrictions |-> {},
      lifestyle_context |-> {}, medical_conditions |-> m] :
        <<p, g, m>> \in {<<{}, {}, {}>>, <<{"units"}, {"sleep"}, {"asthma"}>>}}

\* The narrative and the insights a caller of update_analysis_result passes.
AnalysisInputs ==
    {[text |-> [kind |-> "text", value |-> "analysis A", len |-> 800],
      insights |-> [kind |-> "insights", scores_count |-> RowsFetched,
                    archetypes_count |-> 0, biomarkers_count |-> 0]],
     [text |-> [kind |-> "text", value |-> "analysis B", len |-> 300],
      insights |-> [kind |-> "insights", scores_count |-> 0,
                    archetypes_count |-> 0, biomarkers_count |-> 0]]}

\* The archetype argument a caller passes: a recognized label, the empty
\* string, a label that is not recognized, or (where it is optional) None.
LabelInputs == {Str("Peak Performer"), Str("Foundation Builder"), Str(""), Str("Night Owl")}

\* "if not self.connection: await self.connect()" at the head of every method
\* of MemoryManager: the method goes on with a connection, or connect raises
\* and the exception leaves the method.
Connected(r, conn_ok) == connection[r] # None \/ conn_ok

\* One call of a method of MemoryManager by a client that holds the manager
\* of r: table is the memory table after the statement of the method, res what
\* the method returns.
Call(r, op, arg, conn_ok, ok, table, res) ==
    /\ pc[r] = "client"
    /\ Len(trace[r]) < MaxCalls
    /\ Outcome(Connected(r, conn_ok) /\ ok)
    /\ connection' = [connection EXCEPT ![r] = IF Connected(r, conn_ok) THEN Open ELSE None]
    /\ memory' = IF Connected(r, conn_ok) THEN table ELSE memory
    /\ clock' = Tick(memory, memory', clock)
    /\ Record(r, op, IF Connected(r, conn_ok) THEN res ELSE "raised", arg)
    /\ UNCHANGED <<server, files, args, pc, returned, user_context, memory_context, results>>

\* await manager.get_user_memory(profile_id)
ClientGetUserMemory(r) ==
    \E conn_ok, ok \in BOOLEAN :
        LET um == get_user_memory(memory, profile_id[r], ok)
        IN  /\ Call(r, "get_user_memory",
                    [profile_id |-> profile_id[r],
                     value |-> IF Connected(r, conn_ok) THEN um ELSE None],
                    conn_ok, ok, memory, IF ok THEN "ok" ELSE "failed")
            /\ user_memory' = [user_memory EXCEPT ![r] =
                    IF Connected(r, conn_ok) THEN um ELSE @]

\* await manager.create_user_memory(profile_id, ...); inserted is the number of
\* rows the INSERT reports.
ClientCreateUserMemory(r) ==
    \E conn_ok, ok \in BOOLEAN : \E seed \in SeedContexts :
        /\ Call(r, "create_user_memory",
                [profile_id |-> profile_id[r], value |-> seed,
                 inserted |-> IF Connected(r, conn_ok) /\ ok /\ memory[profile_id[r]] = None
                              THEN 1 ELSE 0],
                conn_ok, ok,
                create_user_memory(memory, profile_id[r], seed.user_preferences,
                    seed.health_goals, seed.dietary_restrictions,
                    seed.lifestyle_context, seed.medical_conditions, ok),
                IF ok THEN "ok" ELSE "failed")
        /\ UNCHANGED user_memory

\* await manager.update_analysis_result(profile_id, analysis_result, insights)
ClientUpdateAnalysisResult(r) ==
    \E conn_ok, ok \in BOOLEAN : \E in \in AnalysisInputs :
        /\ Call(r, "update_analysis_result",
                [profile_id |-> profile_id[r], value |-> in.text, insights |-> in.insights],
                conn_ok, ok,
                update_analysis_result(memory, profile_id[r], in.text, in.insights, clock, ok),
                IF ok THEN "ok" ELSE "failed")
        /\ UNCHANGED user_memory

\* await manager.update_nutrition_plan(profile_id, nutrition_plan)
ClientUpdateNutritionPlan(r) ==
    \E conn_ok, ok \in BOOLEAN :
        /\ Call(r, "update_nutrition_plan",
                [profile_id |-> profile_id[r], value |-> NutritionReply(None)],
                conn_ok, ok,
                update_nutrition_plan(memory, profile_id[r], NutritionReply(None), clock, ok),
                IF ok THEN "ok" ELSE "failed")
        /\ UNCHANGED user_memory

\* await manager.update_routine_plan(profile_id, routine_plan)
ClientUpdateRoutinePlan(r) ==
    \E conn_ok, ok \in BOOLEAN :
        /\ Call(r, "update_routine_plan",
                [profile_id |-> profile_id[r], value |-> RoutineReply(None)],
                conn_ok, ok,
                update_routine_plan(memory, profile_id[r], RoutineReply(None), clock, ok),
                IF ok THEN "ok" ELSE "failed")
        /\ UNCHANGED user_memory

\* await manager.update_archetype_routine_plan(profile_id, archetype, routine_plan)
ClientUpdateArchetypeRoutinePlan(r) ==
    \E conn_ok, ok \in BOOLEAN : \E archetype \in LabelInputs :
        /\ Call(r, "update_archetype_routine_plan",
                [profile_id |-> profile_id[r], value |-> RoutineReply(None),
                 archetype |-> archetype],
                conn_ok, ok,
                update_archetype_routine_plan(memory, profile_id[r], archetype,
                    RoutineReply(None), clock, ok),
                update_archetype_routine_plan_result(archetype, ok))
        /\ UNCHANGED user_memory

\* await manager.update_analysis_results(profile_id, routine_plan=...,
\*     selected_archetype=...): True is returned whatever the updates inside
\* returned; executed tells whether the UPDATE statement inside went through.
ClientUpdateAnalysisResults(r) ==
    \E conn_ok, ok \in BOOLEAN : \E selected_archetype \in LabelInputs \cup {None} :
        /\ Call(r, "update_analysis_results",
                [profile_id |-> profile_id[r], value |-> RoutineReply(None),
                 archetype |-> selected_archetype, executed |-> ok],
                conn_ok, ok,
                update_analysis_results(memory, profile_id[r], None, None,
                    RoutineReply(None), None, selected_archetype, clock, ok),
                "ok")
        /\ UNCHANGED user_memory

\* ------------------------------------------------------- specification

Next ==
    \E r \in Runs :
        \/ Connect(r)
        \/ GetUserMemory(r)
        \/ CreateUserMemory(r)
        \/ GetUserMemoryAgain(r)
        \/ FetchTelemetry(r)
        \/ LogInput(r)
        \/ MetricAnalysis(r)
        \/ PatchAnalysis(r)
        \/ NutritionPlan(r)
        \/ PatchNutrition(r)
        \/ RoutinePlan(r)
        \/ PatchRoutine(r)
        \/ LogOutput(r)
        \/ Disconnect(r)

Spec == Init /\ [][Next]_vars

\* Every await of a run returns: a run that can take a step takes it.
FairSpec == Spec /\ WF_vars(Next)

\* Two runs at once, each with its own HealthCoordinator and MemoryManager,
\* on the same store and the same log files, for the same user or for two
\* users. The first run analyses 7 days; the second run is called with 14
\* days or with an archetype label (and then aborts at the fetch); the
\* environment has one failure left to inject.
ConcurrentInit ==
    /\ InitFor(Runs, "connect", {[kind |-> "int", value |-> "7"], [kind |-> "int", value |-> "14"],
                                 [kind |-> "str", value |-> "Peak Performer"]})
    /\ ServerInit({})
    /\ memory \in {[u \in Users |-> None], [u \in Users |-> PriorRow(u)]}
    /\ profile_id["r1"] = "u1"
    /\ days["r1"] = [kind |-> "int", value |-> "7"]
    /\ days["r2"] \in {[kind |-> "int", value |-> "14"], [kind |-> "str", value |-> "Peak Performer"]}
    /\ \A r \in Runs : env_database_url[r]
    /\ faults = MaxFaults - 1

\* The telemetry source holds rows in each of the three collections.
TelemetryHasRows ==
    \A r \in Runs :
        user_context[r] # None =>
            \A c \in {"scores", "archetypes", "biomarkers"} : user_context[r][c] = RowsFetched

\* The awaits of the two runs interleave in any order.
ConcurrentNext == Next /\ TelemetryHasRows'

ConcurrentSpec == ConcurrentInit /\ [][ConcurrentNext]_vars

\* A client that calls the methods of its MemoryManager directly, in any order
\* and with any arguments, on a memory table that holds no row, a fresh row or
\* a row written by earlier runs.
StoreInit ==
    /\ InitWith({"r1"}, "client")
    /\ faults = 0
    /\ profile_id["r1"] = "u1"
    /\ days["r1"].kind = "int"
    /\ env_database_url["r1"]

StoreNext ==
    \E r \in Runs :
        \/ ClientGetUserMemory(r)
        \/ ClientCreateUserMemory(r)
        \/ ClientUpdateAnalysisResult(r)
        \/ ClientUpdateNutritionPlan(r)
        \/ ClientUpdateRoutinePlan(r)
        \/ ClientUpdateArchetypeRoutinePlan(r)
        \/ ClientUpdateAnalysisResults(r)

StoreSpec == StoreInit /\ [][StoreNext]_vars

\* ------------------------------------------- stage adapters: direct calls

\* SophisticationAssessment: score is declared with ge=0 and le=100, category
\* is any string.
SophisticationAssessment(score, category) ==
    IF score >= 0 /\ score <= 100
    THEN [kind |-> "SophisticationAssessment", score |-> score, category |-> category]
    ELSE [kind |-> "ValidationError"]

\* What the inference capability may answer to the behavior request.
ScoreInputs == {0, 31, 100, 101}
CategoryInputs == {"Novice", "Developing", "Advanced", "Expert"}

\* The agent is declared with output_type=BehaviorAnalysisResult: an answer
\* that does not validate makes Runner.run raise.
BehaviorReply(u, score, category) ==
    IF SophisticationAssessment(score, category).kind = "ValidationError"
    THEN InferenceError
    ELSE [kind |-> "BehaviorAnalysisResult", analysis_date |-> 0, user_id |-> u,
          signature |-> "steady builder",
          sophistication_assessment |-> SophisticationAssessment(score, category),
          readiness_level |-> "Ready"]

\* The request analyze_behavior passes to the inference capability; today is
\* datetime.now() at the resolution of a day.
format_user_data_for_behavior_analysis(context, mem_context, today) ==
    [analysis_type |-> IF mem_context # <<>> THEN "Follow-up Analysis"
                       ELSE "Initial Assessment",
     user_id |-> context.user_id,
     archetype |-> IF context.archetypes > 0 THEN "first archetype" ELSE "unknown",
     biomarkers |-> context.biomarkers, scores |-> context.scores,
     previous |-> IF mem_context # <<>>
                  THEN <<[previous_analysis |-> today - 7, adaptation |-> today - 3,
                          memory |-> mem_context]>>
                  ELSE <<>>,
     analysis_date |-> today, days_since_start |-> context.days]

\* analyze_behavior: the inference output, or, when the inference call raises,
\* a BehaviorAnalysisResult filled with error placeholders.
analyze_behavior(context, mem_context, today, reply) ==
    IF reply = InferenceError
    THEN [kind |-> "BehaviorAnalysisResult", analysis_date |-> today,
          user_id |-> context.user_id, signature |-> "error_state",
          sophistication_assessment |-> SophisticationAssessment(0, "Unknown"),
          readiness_level |-> "Unknown"]
    ELSE reply

\* The request create_nutrition_plan passes to the inference capability.
format_context_for_nutrition_planning(analysis) == [analysis |-> analysis]

\* The request create_routine_plan passes to the inference capability.
format_context_for_routine_planning(analysis, behavior_analysis, archetype) ==
    [archetype |-> archetype, analysis |-> analysis,
     behavior |-> IF behavior_analysis # None
                  THEN <<[signature |-> behavior_analysis.signature,
                          sophistication |-> behavior_analysis.sophistication_assessment,
                          readiness_level |-> behavior_analysis.readiness_level]>>
                  ELSE <<>>]

\* The inputs of the direct calls.
ContextInputs ==
    {[kind |-> "UserProfileContext", user_id |-> "u1", scores |-> n,
      archetypes |-> n, biomarkers |-> n, days |-> "7"] : n \in {0, RowsFetched}}

MemoryContextInputs == {<<>>, format_memory_context(PriorRow("u1"))}

BehaviorInputs == {None, BehaviorReply("u1", 31, "Developing")}

ArchetypeInputs == {"Foundation Builder", "Peak Performer"}

\* One call of an adapter by a client: neither the store nor the files are
\* touched.
Apply(r, op, arg, res) ==
    /\ pc[r] = "adapter"
    /\ Len(trace[r]) < MaxCalls
    /\ Record(r, op, res, arg)
    /\ UNCHANGED <<server, store, files, args, pc, returned, connection, locals, results, faults>>

\* Midnight passes between two calls.
DayPasses(r) ==
    /\ pc[r] = "adapter"
    /\ clock <= Len(trace[r])
    /\ clock' = clock + 1
    /\ UNCHANGED <<server, memory, files, args, pc, returned, connection, locals, results,
                   faults, trace>>

\* service.format_user_data_for_analysis(context), with the memory context
\* analyze_metrics adds to it
ClientFormatMetric(r) ==
    \E context \in ContextInputs, mem_context \in MemoryContextInputs :
        Apply(r, "format_user_data_for_analysis",
              [context |-> context, memory_context |-> mem_context],
              format_user_data_for_analysis(context, mem_context))

\* service.format_user_data_for_behavior_analysis(context, memory_context)
ClientFormatBehavior(r) ==
    \E context \in ContextInputs, mem_context \in MemoryContextInputs :
        Apply(r, "format_user_data_for_behavior_analysis",
              [context |-> context, memory_context |-> mem_context],
              format_user_data_for_behavior_analysis(context, mem_context, clock))

\* service.format_context_for_nutrition_planning(analysis_result)
ClientFormatNutrition(r) ==
    \E analysis \in {MetricReply(r), analyze_metrics(None, <<>>, InferenceError)} :
        Apply(r, "format_context_for_nutrition_planning", [analysis |-> analysis],
              format_context_for_nutrition_planning(analysis))

\* service.format_context_for_routine_planning(analysis_result, behavior_analysis, archetype)
ClientFormatRoutine(r) ==
    \E analysis \in {MetricReply(r), analyze_metrics(None, <<>>, InferenceError)},
       behavior \in BehaviorInputs, archetype \in ArchetypeInputs :
        Apply(r, "format_context_for_routine_planning",
              [analysis |-> analysis, behavior |-> behavior, archetype |-> archetype],
              format_context_for_routine_planning(analysis, behavior, archetype))

\* await analyze_user_behavior(context, memory_context)
ClientAnalyzeBehavior(r) ==
    \E context \in ContextInputs, score \in ScoreInputs, category \in CategoryInputs,
       raises \in BOOLEAN :
        LET reply == IF raises THEN InferenceError
                     ELSE BehaviorReply(context.user_id, score, category)
        IN  Apply(r, "analyze_user_behavior",
                  [context |-> context, raised |-> reply = InferenceError],
                  analyze_behavior(context, <<>>, clock, reply))

\* A client that calls the adapters directly, in any order, on any day.
AdapterInit ==
    /\ InitWith({"r1"}, "adapter")
    /\ faults = 0
    /\ memory = [u \in Users |-> PriorRow(u)]
    /\ profile_id["r1"] = "u1"
    /\ days["r1"].kind = "int"
    /\ env_database_url["r1"]

AdapterNext ==
    \E r \in Runs :
        \/ DayPasses(r)
        \/ ClientFormatMetric(r)
        \/ ClientFormatBehavior(r)
        \/ ClientFormatNutrition(r)
        \/ ClientFormatRoutine(r)
        \/ ClientAnalyzeBehavior(r)

AdapterSpec == AdapterInit /\ [][AdapterNext]_vars

\* ------------------------------------------------ MemoryManager: patches

\* Every label of archetype_columns, the empty label and an unknown one.
AllLabelInputs == {Str(a) : a \in DOMAIN archetype_columns} \cup {Str(""), Str("Night Owl")}

\* await manager.update_behavior_analysis(profile_id, behavior_analysis)
ClientUpdateBehaviorAnalysis(r) ==
    \E conn_ok, ok \in BOOLEAN :
        /\ Call(r, "update_behavior_analysis",
                [profile_id |-> profile_id[r], value |-> BehaviorReply(profile_id[r], 31, "Developing")],
                conn_ok, ok,
                update_behavior_analysis(memory, profile_id[r],
                    BehaviorReply(profile_id[r], 31, "Developing"), clock, ok),
                IF ok THEN "ok" ELSE "failed")
        /\ UNCHANGED user_memory

\* await manager.update_archetype_routine_plan(profile_id, archetype, routine_plan),
\* for any label
ClientUpdateArchetypeRoutinePlanFor(r) ==
    \E conn_ok, ok \in BOOLEAN : \E archetype \in AllLabelInputs :
        /\ Call(r, "update_archetype_routine_plan",
                [profile_id |-> profile_id[r], value |-> RoutineReply(None),
                 archetype |-> archetype],
                conn_ok, ok,
                update_archetype_routine_plan(memory, profile_id[r], archetype,
                    RoutineReply(None), clock, ok),
                update_archetype_routine_plan_result(archetype, ok))
        /\ UNCHANGED user_memory

\* A client that patches the record of its user through the update methods of
\* its MemoryManager, in any order.
PatchInit == StoreInit

PatchNext ==
    \E r \in Runs :
        \/ ClientUpdateAnalysisResult(r)
        \/ ClientUpdateNutritionPlan(r)
        \/ ClientUpdateRoutinePlan(r)
        \/ ClientUpdateBehaviorAnalysis(r)
        \/ ClientUpdateArchetypeRoutinePlanFor(r)

PatchSpec == PatchInit /\ [][PatchNext]_vars

\* ------------------------------------------- app.py: analysis streams

\* The output lines a subprocess writes at most.
MaxLines == 2

\* subprocess.Popen(...): the object of a started subprocess.
Popen == [kind |-> "Popen", state |-> "running", returncode |-> 0]

\* Mutant of cleanup_registry: the entry is removed only when the subprocess
\* had exited with code 0.
cleanup_registry_OnSuccessOnly(registry, key, proc) ==
    IF proc # None /\ proc.state = "exited" /\ proc.returncode = 0
    THEN registry \ {key} ELSE registry

\* finally: "if process: ...; active_processes.pop(id(process), None)".
cleanup_registry(registry, key, proc) ==
    IF proc # None THEN registry \ {key} ELSE registry

\* finally: "process.terminate(); process.wait(timeout=5)", and
\* process.kill() when one of the two raises: a subprocess that has exited
\* stays as it is, a running one is terminated within the 5 seconds
\* (graceful) or killed.
cleanup_process(proc, graceful) ==
    IF proc = None \/ proc.state # "running" THEN proc
    ELSE [proc EXCEPT !.state = IF graceful THEN "terminated" ELSE "killed"]

\* The finally block of generate_analysis_stream, which ends the stream.
Cleanup(s) ==
    /\ \E graceful \in BOOLEAN : process' = [process EXCEPT ![s] = cleanup_process(@, graceful)]
    /\ active_processes' = cleanup_registry(active_processes, s, process[s])
    /\ stream_pc' = [stream_pc EXCEPT ![s] = "closed"]

\* The run and the store, which the server does not touch.
pipeline == <<store, files, args, pc, returned, connection, locals, results, trace, faults>>

\* The first iteration of the stream: Popen, the entry in the registry under
\* id(process), and the "Analysis started" message; when Popen raises, the
\* except block sends a server error.
StartProcess(s) ==
    /\ stream_pc[s] = "popen"
    /\ \E ok \in BOOLEAN :
        /\ process' = [process EXCEPT ![s] = IF ok THEN Popen ELSE None]
        /\ active_processes' = IF ok THEN active_processes \cup {s} ELSE active_processes
        /\ stream_pc' = [stream_pc EXCEPT ![s] = IF ok THEN "reading" ELSE "failed"]
    /\ UNCHANGED <<pipeline, sent>>

\* process.stdout.readline() returns a line, which is sent to the client.
ReadLine(s) ==
    /\ stream_pc[s] = "reading"
    /\ process[s].state = "running"
    /\ sent[s] < MaxLines
    /\ sent' = [sent EXCEPT ![s] = @ + 1]
    /\ UNCHANGED <<pipeline, active_processes, stream_pc, process>>

\* The subprocess exits, with code 0 or with an error code.
ProcessExits(s) ==
    /\ process[s] # None
    /\ process[s].state = "running"
    /\ \E code \in {0, 1} :
        process' = [process EXCEPT ![s] = [@ EXCEPT !.state = "exited", !.returncode = code]]
    /\ UNCHANGED <<pipeline, active_processes, stream_pc, sent>>

\* readline() returns '' and poll() is not None: the loop ends, process.wait()
\* returns the code and the "complete" or the "error" message is sent.
EndOfOutput(s) ==
    /\ stream_pc[s] = "reading"
    /\ process[s].state = "exited"
    /\ stream_pc' = [stream_pc EXCEPT ![s] =
            IF process[s].returncode = 0 THEN "complete" ELSE "error"]
    /\ UNCHANGED <<pipeline, active_processes, process, sent>>

\* An exception inside the try block after the subprocess was started: the
\* except block sends a server error.
ServerError(s) ==
    /\ stream_pc[s] = "reading"
    /\ stream_pc' = [stream_pc EXCEPT ![s] = "failed"]
    /\ UNCHANGED <<pipeline, active_processes, process, sent>>

\* The client asks for what follows the last message: the finally block runs
\* and the stream is exhausted.
Finish(s) ==
    /\ stream_pc[s] \in {"complete", "error", "failed"}
    /\ Cleanup(s)
    /\ UNCHANGED <<pipeline, sent>>

\* The client goes away while the stream is suspended in its loop: the
\* generator is closed, GeneratorExit (or the cancellation of the sleep)
\* passes the except block and the finally block runs.
ClientDisconnects(s) ==
    /\ stream_pc[s] = "reading"
    /\ Cleanup(s)
    /\ UNCHANGED <<pipeline, sent>>

\* GET /api/analysis/status
get_status == [status |-> "running", active_processes |-> Cardinality(active_processes)]

\* Two analysis requests accepted by the server, their streams served at once.
StreamInit ==
    /\ InitFor({}, "idle", {[kind |-> "int", value |-> "7"]})
    /\ memory = [u \in Users |-> None]
    /\ env_database_url = [r \in Runs |-> TRUE]
    /\ faults = 0
    /\ ServerInit(Streams)

StreamNext ==
    \E s \in Streams :
        \/ StartProcess(s)
        \/ ReadLine(s)
        \/ ProcessExits(s)
        \/ EndOfOutput(s)
        \/ ServerError(s)
        \/ Finish(s)
        \/ ClientDisconnects(s)

StreamSpec == StreamInit /\ [][StreamNext]_vars

\* ------------------------------------------------------------ properties

\* The positions in trace[r] of the calls of op.
Idx(r, op) == {i \in 1..Len(trace[r]) : trace[r][i].op = op}

Count(r, op) == Cardinality(Idx(r, op))

StageOps == {"analyze_user_health_metrics", "analyze_user_behavior",
             "create_personalized_nutrition_plan", "create_personalized_routine_plan"}

PatchOps == {"update_analysis_result", "update_nutrition_plan", "update_routine_plan",
             "update_archetype_routine_plan", "update_behavior_analysis"}

\* The inference call of the metric-analysis stage of run r returned a narrative.
MetricOk(r) ==
    \E i \in Idx(r, "analyze_user_health_metrics") : trace[r][i].res = "ok"

\* C1: when get_user_profile_context raises, the run is aborted at once: the
\* failed fetch is the last call of the run, no stage is executed and no patch
\* of the memory is issued.
C1_FetchFailureAborts ==
    \A r \in Runs : \A i \in Idx(r, "get_user_profile_context") :
        trace[r][i].res = "raised" =>
            /\ pc[r] = "aborted"
            /\ i = Len(trace[r])
            /\ \A j \in 1..Len(trace[r]) : trace[r][j].op \notin StageOps \cup PatchOps

\* C1 witness: a run whose memory was loaded and whose telemetry fetch raised.
C1_Witness ==
    \E r \in Runs :
        /\ pc[r] = "aborted"
        /\ user_memory[r] # None
        /\ trace[r][Len(trace[r])] = Event("get_user_profile_context", "raised", None)

\* C2 (as claimed): when the inference call of the metric-analysis stage faults,
\* neither the nutrition-plan stage nor the routine-plan stage is executed
\* afterwards, and the failed narrative is handed to no stage.
C2_MetricFaultAborts ==
    \A r \in Runs : \A i \in Idx(r, "analyze_user_health_metrics") :
        trace[r][i].res = "fault" =>
            \A j \in 1..Len(trace[r]) :
                j > i => trace[r][j].op \notin {"create_personalized_nutrition_plan",
                                                "create_personalized_routine_plan"}

\* C3 (as claimed): in every run whose metric analysis succeeded, whatever
\* LOAD_MEMORY did, update_analysis_result is issued for the run's user id right
\* after the metric-analysis call and before the nutrition-plan stage.
C3_PatchAfterEveryMetricSuccess ==
    \A r \in Runs :
        (MetricOk(r) /\ pc[r] # "patch_analysis") =>
            \E i \in Idx(r, "analyze_user_health_metrics") :
                /\ i < Len(trace[r])
                /\ trace[r][i + 1].op = "update_analysis_result"
                /\ trace[r][i + 1].arg.profile_id = profile_id[r]

\* C3 (amended): in every run whose metric analysis succeeded and whose
\* LOAD_MEMORY left a record in user_memory, update_analysis_result is issued
\* for the run's user id, with the narrative, right after the metric-analysis
\* call and before the nutrition-plan stage; a run whose LOAD_MEMORY ended
\* without a record issues no update_analysis_result.
C3_PatchAfterMetricWhenMemoryLoaded ==
    \A r \in Runs :
        /\ (MetricOk(r) /\ user_memory[r] # None /\ pc[r] # "patch_analysis") =>
                \E i \in Idx(r, "analyze_user_health_metrics") :
                    /\ i < Len(trace[r])
                    /\ trace[r][i + 1].op = "update_analysis_result"
                    /\ trace[r][i + 1].arg.profile_id = profile_id[r]
                    /\ trace[r][i + 1].arg.value = analysis_result[r]
        /\ (pc[r] \notin {"connect", "get_user_memory", "create_user_memory",
                          "get_user_memory_again"} /\ user_memory[r] = None) =>
                Count(r, "update_analysis_result") = 0

\* C3 witness: the narrative was patched and the nutrition-plan stage has run.
C3_Witness ==
    \E r \in Runs :
        /\ MetricOk(r)
        /\ Count(r, "update_analysis_result") = 1
        /\ Count(r, "create_personalized_nutrition_plan") = 1
        /\ memory[profile_id[r]] # None
        /\ memory[profile_id[r]].last_analysis_result = analysis_result[r]

\* C4: after a successful metric analysis the run is never aborted, the
\* nutrition-plan and the routine-plan stage are each executed at most once,
\* both have been executed once the run is at its output logging, and the
\* output logging has been attempted once the run is past it, whatever the
\* outcome of either stage or of its patch.
C4_PlanStagesIndependent ==
    \A r \in Runs :
        MetricOk(r) =>
            /\ pc[r] # "aborted"
            /\ Count(r, "create_personalized_nutrition_plan") <= 1
            /\ Count(r, "create_personalized_routine_plan") <= 1
            /\ pc[r] \in {"log_output", "disconnect", "done"} =>
                    /\ Count(r, "create_personalized_nutrition_plan") = 1
                    /\ Count(r, "create_personalized_routine_plan") = 1
            /\ pc[r] \in {"disconnect", "done"} => Count(r, "log_output_data") = 1
            /\ \A i \in Idx(r, "create_personalized_nutrition_plan") :
                    pc[r] \in {"patch_nutrition", "routine", "patch_routine",
                               "log_output", "disconnect", "done"}

\* C4 witness: the nutrition-plan stage raised, the routine-plan stage ran
\* after it and the run completed.
C4_Witness ==
    \E r \in Runs :
        /\ pc[r] = "done"
        /\ MetricOk(r)
        /\ \E i \in Idx(r, "create_personalized_nutrition_plan") :
                /\ trace[r][i].res = "raise"
                /\ \E j \in Idx(r, "create_personalized_routine_plan") : j > i
        /\ Count(r, "log_output_data") = 1

\* C5 (as claimed): a plan is patched into the memory only when the inference
\* call of its stage succeeded in this run; an error placeholder is never
\* written.
C5_OnlySuccessfulStagesPersisted ==
    \A r \in Runs :
        /\ \A i \in Idx(r, "update_nutrition_plan") :
                \E j \in Idx(r, "create_personalized_nutrition_plan") :
                    j < i /\ trace[r][j].res = "ok"
        /\ \A i \in Idx(r, "update_routine_plan") :
                \E j \in Idx(r, "create_personalized_routine_plan") :
                    j < i /\ trace[r][j].res = "ok"

\* C6 (as claimed): every run, however it ends, has attempted log_output_data
\* exactly once when it ends.
C6_LogOutputInEveryRun ==
    \A r \in Runs :
        pc[r] \in {"done", "aborted"} => Count(r, "log_output_data") = 1

\* C6 (amended): log_output_data is attempted at most once in a run; a run
\* that is not aborted attempts it exactly once, after the routine-plan stage
\* and its patch and before the disconnect, whichever of the plan stages
\* succeeded, and passes it the stage results the run holds; a run aborted at
\* the telemetry fetch or at the metric analysis never attempts it.
C6_LogOutputOnceUnlessAborted ==
    \A r \in Runs :
        /\ Count(r, "log_output_data") <= 1
        /\ pc[r] = "aborted" => Count(r, "log_output_data") = 0
        /\ pc[r] \in {"disconnect", "done"} =>
                \E i \in Idx(r, "log_output_data") :
                    /\ trace[r][i].arg = OutputEntry(r)
                    /\ Count(r, "create_personalized_routine_plan") = 1
                    /\ \A j \in 1..Len(trace[r]) :
                            /\ j < i => trace[r][j].op # "disconnect"
                            /\ j > i => trace[r][j].op = "disconnect"

\* C6 witness: a completed run whose routine-plan stage raised and whose output
\* entry holds the narrative and the nutrition plan but no routine plan.
C6_Witness ==
    \E r \in Runs :
        /\ pc[r] = "done"
        /\ routine_plan[r] = None
        /\ nutrition_plan[r] # None
        /\ \E k \in 1..Len(output_txt) : output_txt[k] = OutputEntry(r)

\* The calls of LOAD_MEMORY.
LoadOps == {"connect", "get_user_memory", "create_user_memory"}

\* C7: LOAD_MEMORY reads the record; create_user_memory is called exactly when
\* the first read returned None and is followed by a second read; no run is
\* aborted before its telemetry fetch, whatever failed in LOAD_MEMORY; and a
\* run whose LOAD_MEMORY ended without a record runs its metric analysis with
\* the empty memory context.
C7_LoadMemoryNonFatal ==
    \A r \in Runs :
        /\ pc[r] = "aborted" => Count(r, "get_user_profile_context") = 1
        /\ \A i \in Idx(r, "create_user_memory") :
                /\ i = 3
                /\ trace[r][2].op = "get_user_memory"
                /\ trace[r][2].arg.value = None
                /\ i < Len(trace[r]) => trace[r][i + 1].op = "get_user_memory"
        /\ (Len(trace[r]) >= 3 /\ trace[r][2].op = "get_user_memory"
                /\ trace[r][2].arg.value = None) => trace[r][3].op = "create_user_memory"
        /\ \A i \in 1..Len(trace[r]) :
                (trace[r][i].op \notin LoadOps /\ i > 1) =>
                    \/ trace[r][i - 1].op \notin LoadOps
                    \/ trace[r][i].op = "get_user_profile_context"
        /\ \A i \in Idx(r, "analyze_user_health_metrics") :
                user_memory[r] = None => trace[r][i].arg.memory = <<>>

\* C7 witness: the connection failed, and the run went on to analyse the
\* metrics with the empty memory context and completed.
C7_Witness ==
    \E r \in Runs :
        /\ pc[r] = "done"
        /\ trace[r][1] = Event("connect", "raised", None)
        /\ \E i \in Idx(r, "analyze_user_health_metrics") : trace[r][i].arg.memory = <<>>

\* A run that has returned, or that never started.
Returned(r) == pc[r] \in {"done", "aborted", "idle"}

\* C8: no exception leaves run_analysis, and every run returns, done or
\* aborted, whatever the store, the telemetry source and the inference
\* capability do.
C8_RunTerminatesWithoutRaising ==
    /\ [](\A r \in Runs : pc[r] # "raised")
    /\ <>(\A r \in Runs : Returned(r))

\* C8 witness: the telemetry was fetched, all three inference calls faulted
\* and the run completed with one output entry.
C8_Witness ==
    \E r \in Runs :
        /\ pc[r] = "done"
        /\ \A op \in {"analyze_user_health_metrics", "create_personalized_nutrition_plan",
                      "create_personalized_routine_plan"} :
                \E i \in Idx(r, op) : trace[r][i].res = "fault"
        /\ Len(output_txt) = 1

\* The place of a call in the order LOAD_MEMORY, FETCH_TELEMETRY, LOG_INPUT,
\* METRIC_ANALYSIS, BEHAVIOR_ANALYSIS, NUTRITION_PLAN, ROUTINE_PLAN, LOG_OUTPUT,
\* each stage followed by its patch.
Rank(op) ==
    CASE op \in LoadOps -> 1
      [] op = "get_user_profile_context" -> 2
      [] op = "log_input_data" -> 3
      [] op = "analyze_user_health_metrics" -> 4
      [] op = "update_analysis_result" -> 5
      [] op = "analyze_user_behavior" -> 6
      [] op = "update_behavior_analysis" -> 7
      [] op = "create_personalized_nutrition_plan" -> 8
      [] op = "update_nutrition_plan" -> 9
      [] op = "create_personalized_routine_plan" -> 10
      [] op \in {"update_routine_plan", "update_archetype_routine_plan"} -> 11
      [] op = "log_output_data" -> 12
      [] op = "disconnect" -> 13

\* C9: the calls of a run are made one after the other in the order of the
\* stages: of any two calls the earlier one belongs to the earlier stage, a
\* patch comes after its own stage and before the next one, and no stage or
\* patch is executed twice.
C9_StagesInOrder ==
    \A r \in Runs : \A i, j \in 1..Len(trace[r]) :
        i < j =>
            /\ Rank(trace[r][i].op) <= Rank(trace[r][j].op)
            /\ Rank(trace[r][i].op) = Rank(trace[r][j].op) => trace[r][i].op \in LoadOps

\* C9 witness: a completed run that executed every stage and issued all three
\* patches.
C9_Witness ==
    \E r \in Runs :
        /\ pc[r] = "done"
        /\ Count(r, "create_user_memory") = 1
        /\ Count(r, "update_analysis_result") = 1
        /\ Count(r, "update_nutrition_plan") = 1
        /\ Count(r, "update_routine_plan") = 1
        /\ Count(r, "log_output_data") = 1

\* C10 (as claimed): a run whose metric analysis succeeded executes
\* analyze_user_behavior after the metric analysis and before the nutrition-plan
\* stage, and hands a behavior profile to the routine-plan stage.
C10_BehaviorStageRuns ==
    \A r \in Runs :
        MetricOk(r) =>
            /\ \A i \in Idx(r, "create_personalized_nutrition_plan") :
                    \E j \in Idx(r, "analyze_user_behavior") : j < i
            /\ \A i \in Idx(r, "create_personalized_routine_plan") :
                    \/ trace[r][i].arg.behavior_analysis # None
                    \/ \E j \in Idx(r, "analyze_user_behavior") :
                            j < i /\ trace[r][j].res # "ok"

\* The archetype label the caller chose for the run, if it chose one:
\* main_api.py passes it as the only argument of run_analysis.
Chosen(r) == IF days[r].kind = "str" THEN days[r].value ELSE "Foundation Builder"

\* C11 (as claimed): a run started with one of the six archetype labels, with
\* the telemetry source, the store and the inference capability all working,
\* plans the routine with that label's variant and, when it has returned, has
\* stored the plan in the label's own column and set last_archetype to the label.
C11_ArchetypeAwareRun ==
    \A r \in Runs :
        (days[r].kind = "str" /\ env_database_url[r] /\ faults = 0 /\ returned[r] # Running) =>
            /\ \E i \in Idx(r, "create_personalized_routine_plan") :
                    trace[r][i].arg.archetype = Chosen(r)
            /\ memory[profile_id[r]] # None
            /\ memory[profile_id[r]].archetype_plans[archetype_columns[Chosen(r)]] = routine_plan[r]
            /\ memory[profile_id[r]].last_archetype # None

\* The stages a status vector reports on.
Stages == {"metric_analysis", "behavior_analysis", "nutrition_plan", "routine_plan"}

\* C12 (as claimed): what run_analysis returns to its caller is a status
\* vector: for each of the four stages it says "succeeded" or "failed", and a
\* failed stage carries a reason.
C12_RunReturnsStatusVector ==
    \A r \in Runs :
        returned[r] # Running =>
            /\ returned[r] # None
            /\ \A st \in Stages :
                    /\ returned[r][st].status \in {"succeeded", "failed"}
                    /\ returned[r][st].status = "failed" => returned[r][st].reason # None

\* The call made in this step by the client or run r, if it made one.
Calls(r) == trace'[r] # trace[r]

LastCall(r) == trace'[r][Len(trace'[r])]

ContextMaps == {"user_preferences", "health_goals", "dietary_restrictions",
                "lifestyle_context", "medical_conditions"}

\* C13: create_user_memory never overwrites: a call on a user id that has a
\* row leaves every row of the table as it is, whatever context maps are
\* passed; no call of any method removes a row; and the row of a user id is the
\* only one that carries that id.
C13_CreateNeverOverwrites ==
    [][/\ \A u \in Users : memory[u] # None => memory'[u] # None
       /\ \A u \in Users : memory'[u] # None => memory'[u].profile_id = u
       /\ \A r \in Runs :
            (Calls(r) /\ LastCall(r).op = "create_user_memory") =>
                \A u \in Users :
                    (memory[u] # None \/ u # LastCall(r).arg.profile_id)
                        => memory'[u] = memory[u]]_vars

\* C13 witness: create_user_memory was called with context maps for a user
\* whose row held earlier results, it returned True and the row is as before.
C13_Witness ==
    \E r \in Runs : \E i \in Idx(r, "create_user_memory") :
        /\ trace[r][i].res = "ok"
        /\ trace[r][i].arg.value.user_preferences # {}
        /\ memory[profile_id[r]] = PriorRow(profile_id[r])

\* A create_user_memory that inserted the row, directly followed by a
\* get_user_memory that read it: the positions of the get.
CreateThenGet(r) ==
    {i \in 2..Len(trace[r]) :
        /\ trace[r][i - 1].op = "create_user_memory"
        /\ trace[r][i - 1].res = "ok"
        /\ trace[r][i - 1].arg.inserted = 1
        /\ trace[r][i].op = "get_user_memory"
        /\ trace[r][i].res = "ok"}

\* The record get returned holds no result of any analysis and counter 0.
NoResults(m) ==
    /\ m.last_analysis_result = None
    /\ m.last_nutrition_plan = None
    /\ m.last_routine_plan = None
    /\ m.last_behavior_analysis = None
    /\ \A c \in DOMAIN m.archetype_plans : m.archetype_plans[c] = None
    /\ m.total_analyses = 0

\* C14 (as claimed): for a user id without a row, create_user_memory followed
\* by get_user_memory returns a record for that user id with all five context
\* maps empty, no last analysis or plan, and counter 0.
C14_CreateThenGetIsEmpty ==
    \A r \in Runs : \A i \in CreateThenGet(r) :
        LET m == trace[r][i].arg.value
        IN  /\ m # None
            /\ m.profile_id = trace[r][i].arg.profile_id
            /\ \A f \in ContextMaps : m[f] = {}
            /\ NoResults(m)

\* C14 (amended): for a user id without a row, create_user_memory followed by
\* get_user_memory returns a record for that user id in which each of the five
\* context maps is the map passed to create_user_memory (empty when none is
\* passed), no last analysis or plan is present, and the counter is 0.
C14_CreateThenGetIsSeed ==
    \A r \in Runs : \A i \in CreateThenGet(r) :
        LET m == trace[r][i].arg.value
        IN  /\ m # None
            /\ m.profile_id = trace[r][i].arg.profile_id
            /\ \A f \in ContextMaps : m[f] = trace[r][i - 1].arg.value[f]
            /\ NoResults(m)

\* C14 witness: a row was created with context maps and read back.
C14_Witness ==
    \E r \in Runs : \E i \in CreateThenGet(r) :
        /\ trace[r][i - 1].arg.value.user_preferences = {"units"}
        /\ user_memory[r] # None
        /\ user_memory[r].user_preferences = {"units"}
        /\ user_memory[r].total_analyses = 0

\* C15: a call of update_analysis_result that returns True replaces the last
\* analysis and its insights of the user's row by the arguments of the call
\* (so after two calls the second call's values remain) and adds exactly 1 to
\* total_analyses; a call that fails leaves the table as it is; and no call of
\* any method decreases total_analyses.
C15_PatchAnalysisCountsOnce ==
    [][/\ \A u \in Users :
            (memory[u] # None /\ memory'[u] # None) =>
                memory'[u].total_analyses >= memory[u].total_analyses
       /\ \A r \in Runs :
            (Calls(r) /\ LastCall(r).op = "update_analysis_result") =>
                LET u == LastCall(r).arg.profile_id
                IN  IF LastCall(r).res = "ok"
                    THEN memory[u] # None =>
                            /\ memory'[u].last_analysis_result = LastCall(r).arg.value
                            /\ memory'[u].analysis_insights = LastCall(r).arg.insights
                            /\ memory'[u].total_analyses = memory[u].total_analyses + 1
                    ELSE memory' = memory]_vars

\* C15 witness: two calls of update_analysis_result returned True on a row that
\* counted one analysis; the second call's narrative is stored and the counter
\* is 3.
C15_Witness ==
    \E r \in Runs :
        /\ Len(trace[r]) = 2
        /\ \A i \in 1..2 : trace[r][i].op = "update_analysis_result" /\ trace[r][i].res = "ok"
        /\ trace[r][1].arg.value # trace[r][2].arg.value
        /\ memory[profile_id[r]] # None
        /\ memory[profile_id[r]].last_analysis_result = trace[r][2].arg.value
        /\ memory[profile_id[r]].total_analyses = 3

\* C16: a call of update_archetype_routine_plan with a label that is not one of
\* the six keys of archetype_columns returns False (or connect raises) and
\* leaves the memory table as it is: no archetype column, not last_archetype,
\* not routine_plan_date and not last_routine_plan is written.
C16_UnknownArchetypeWritesNothing ==
    [][\A r \in Runs :
            (/\ Calls(r)
             /\ LastCall(r).op = "update_archetype_routine_plan"
             /\ ~KnownArchetype(LastCall(r).arg.archetype)) =>
                /\ LastCall(r).res \in {"failed", "raised"}
                /\ memory' = memory]_vars

\* C16 witness: update_archetype_routine_plan was called on an open connection
\* with a label that is not recognized, for a user that has a row, and returned
\* False.
C16_Witness ==
    \E r \in Runs : \E i \in Idx(r, "update_archetype_routine_plan") :
        /\ trace[r][i].arg.archetype = Str("Night Owl")
        /\ trace[r][i].res = "failed"
        /\ connection[r] # None
        /\ memory[profile_id[r]] # None
        /\ memory[profile_id[r]].last_routine_plan = None
        /\ memory[profile_id[r]].last_archetype = None

\* C17 (as claimed): a routine plan handed to update_analysis_results with a
\* label that is not one of the six recognized labels (also "" and no label) is
\* stored in the generic routine plan column: once the call has returned True
\* and its statement went through, last_routine_plan of the user's row is the
\* plan.
C17_UnknownLabelUsesGenericColumn ==
    \A r \in Runs : \A i \in Idx(r, "update_analysis_results") :
        (/\ ~KnownArchetype(trace[r][i].arg.archetype)
         /\ trace[r][i].res = "ok"
         /\ trace[r][i].arg.executed
         /\ memory[profile_id[r]] # None) =>
            memory[profile_id[r]].last_routine_plan = trace[r][i].arg.value

\* C18 (as claimed): get_user_memory returns None only when the user id has no
\* row: a call whose read failed does not return None (it fails instead).
C18_GetAbsentOnlyWhenNoRow ==
    \A r \in Runs : \A i \in Idx(r, "get_user_memory") :
        (trace[r][i].res # "raised" /\ trace[r][i].arg.value = None) =>
            trace[r][i].res = "ok"

\* The patches run_analysis issues: the column each writes, the field of the
\* output entry that holds the stage result, and the stage call it follows.
RunPatches ==
    [update_analysis_result |->
        [column |-> "last_analysis_result", output |-> "metric_analysis",
         stage |-> "analyze_user_health_metrics"],
     update_nutrition_plan |->
        [column |-> "last_nutrition_plan", output |-> "nutrition_plan",
         stage |-> "create_personalized_nutrition_plan"],
     update_routine_plan |->
        [column |-> "last_routine_plan", output |-> "routine_plan",
         stage |-> "create_personalized_routine_plan"]]

\* C19: when a patch of a run fails, the values written by the earlier
\* successful patches of the run stay in the row, the result of the stage whose
\* patch failed is in the output entry handed to log_output_data, and every
\* later stage has been executed, and has issued its own patch unless the stage
\* call raised, once the run is at its output logging.
C19_PatchesIndependent ==
    \A r \in Runs : \A i \in 1..Len(trace[r]) :
        (trace[r][i].op \in DOMAIN RunPatches /\ trace[r][i].res = "failed") =>
            /\ \A j \in 1..(i - 1) :
                    (trace[r][j].op \in DOMAIN RunPatches /\ trace[r][j].res = "ok") =>
                        /\ memory[profile_id[r]] # None
                        /\ memory[profile_id[r]][RunPatches[trace[r][j].op].column]
                                = trace[r][j].arg.value
            /\ \A k \in Idx(r, "log_output_data") :
                    trace[r][k].arg[RunPatches[trace[r][i].op].output] = trace[r][i].arg.value
            /\ pc[r] \in {"log_output", "disconnect", "done"} =>
                    \A p \in DOMAIN RunPatches :
                        Rank(p) > Rank(trace[r][i].op) =>
                            \E k \in Idx(r, RunPatches[p].stage) :
                                /\ k > i
                                /\ trace[r][k].res # "raise" =>
                                        (k < Len(trace[r]) /\ trace[r][k + 1].op = p)

\* C19 witness: a completed run whose analysis patch succeeded, whose nutrition
\* patch failed and whose routine patch succeeded: the analysis and the routine
\* plan are in the row, the nutrition plan is not, and the output entry holds
\* all three.
C19_Witness ==
    \E r \in Runs :
        /\ pc[r] = "done"
        /\ \E i \in Idx(r, "update_analysis_result") : trace[r][i].res = "ok"
        /\ \E i \in Idx(r, "update_nutrition_plan") : trace[r][i].res = "failed"
        /\ \E i \in Idx(r, "update_routine_plan") : trace[r][i].res = "ok"
        /\ memory[profile_id[r]].last_analysis_result = analysis_result[r]
        /\ memory[profile_id[r]].last_nutrition_plan # nutrition_plan[r]
        /\ memory[profile_id[r]].last_routine_plan = routine_plan[r]
        /\ \E k \in 1..Len(output_txt) :
                /\ output_txt[k] = OutputEntry(r)
                /\ output_txt[k].nutrition_plan # None

\* C20 (as claimed): every result of the routine-plan stage, also the one
\* returned when the inference call faults, has exactly the four time blocks,
\* each with at least 2 and at most 4 tasks.
C20_RoutineBlocksHaveTwoToFourTasks ==
    \A r \in Runs :
        routine_plan[r] # None =>
            /\ DOMAIN routine_plan[r].tasks = TimeBlocks
            /\ \A b \in TimeBlocks : routine_plan[r].tasks[b] \in 2..4


\* ------------------------------------------------------------ C21

\* The readiness band of a sophistication score.
Band(score) ==
    IF score <= 30 THEN "Novice"
    ELSE IF score <= 50 THEN "Developing"
    ELSE IF score <= 75 THEN "Advanced" ELSE "Expert"

\* C21: every behavior profile analyze_behavior returns, the one returned
\* after an inference fault included, has a sophistication score between 0
\* and 100 and the readiness category of exactly the band the score falls in.
C21_ProfileCategoryMatchesBand ==
    \A r \in Runs : \A i \in Idx(r, "analyze_user_behavior") :
        LET a == trace[r][i].res.sophistication_assessment
        IN  /\ a.score \in 0..100
            /\ a.category = Band(a.score)

\* ------------------------------------------------------------ C22

\* The entries of a log file written for the user of run r.
EntriesOf(file, r) == {i \in 1..Len(file) : file[i].profile_id = profile_id[r]}

\* The calls of op by run r that wrote their entry.
Written(r, op) == {i \in Idx(r, op) : trace[r][i].res = "ok"}

DifferentUsers == profile_id["r1"] # profile_id["r2"]

\* C22 (as claimed): two concurrent runs for two different user ids produce
\* exactly one input entry and one output entry each.
C22_OneEntryEachPerRun ==
    (DifferentUsers /\ \A r \in Runs : Returned(r)) =>
        \A r \in Runs :
            /\ Cardinality(EntriesOf(input_txt, r)) = 1
            /\ Cardinality(EntriesOf(output_txt, r)) = 1

\* A step changes a log file only by adding, at its end, the whole entry of
\* the run that makes the log call; every earlier entry stays as it was.
AppendsWhole(file, fileNext, op) ==
    fileNext # file =>
        \E r \in Runs :
            /\ Calls(r)
            /\ LastCall(r).op = op
            /\ fileNext = Append(file, fileNext[Len(fileNext)])
            /\ fileNext[Len(fileNext)].profile_id = profile_id[r]

\* C22 (amended): two concurrent runs for two different user ids each attempt
\* at most one input entry and at most one output entry; the files hold, for
\* each run, exactly the entries whose write succeeded: one input entry and
\* one output entry for a run that ends normally with both writes succeeding;
\* and every append adds one whole entry at the end of its file, leaving the
\* other run's entries intact (no interleaving, truncation or overwrite).
C22_EntriesAppendedWhole ==
    /\ [](DifferentUsers =>
            \A r \in Runs :
                /\ Count(r, "log_input_data") <= 1
                /\ Count(r, "log_output_data") <= 1
                /\ Cardinality(EntriesOf(input_txt, r)) =
                        Cardinality(Written(r, "log_input_data"))
                /\ Cardinality(EntriesOf(output_txt, r)) =
                        Cardinality(Written(r, "log_output_data"))
                /\ pc[r] = "done" =>
                        /\ Count(r, "log_input_data") = 1
                        /\ Count(r, "log_output_data") = 1)
    /\ [][/\ AppendsWhole(input_txt, input_txt', "log_input_data")
          /\ AppendsWhole(output_txt, output_txt', "log_output_data")
          /\ input_txt' = input_txt \/ output_txt' = output_txt]_vars

\* Both runs end normally, their entries interleaved in the two files: the
\* second run logged its input first, the first run its output first.
C22_Witness ==
    /\ DifferentUsers
    /\ \A r \in Runs : pc[r] = "done"
    /\ Len(input_txt) = 2 /\ input_txt[1].profile_id = "u2" /\ input_txt[2].profile_id = "u1"
    /\ Len(output_txt) = 2 /\ output_txt[1].profile_id = "u1" /\ output_txt[2].profile_id = "u2"

\* ------------------------------------------------------------ C23

\* C23: runs for different users are isolated. A step of a run for user u
\* (a read, create or patch, also in a run that aborts) leaves the record of
\* every other user as it was, the record a run holds is the one of its own
\* user, and a run that has not returned can always take its next step,
\* whatever the concurrent run is doing.
C23_RunsIsolated ==
    /\ [][\A r \in Runs :
            Calls(r) => \A u \in Users \ {profile_id[r]} : memory'[u] = memory[u]]_vars
    /\ [](\A r \in Runs :
            /\ user_memory[r] # None => user_memory[r].profile_id = profile_id[r]
            /\ ~Returned(r) => ENABLED (Next /\ Calls(r)))

\* The first run has patched the record of its user and ended normally while
\* the second run, for another user, aborted: the record of the second user is
\* the one it was at the start.
C23_Witness ==
    /\ DifferentUsers
    /\ pc["r1"] = "done" /\ pc["r2"] = "aborted"
    /\ memory["u1"] # None /\ memory["u1"].total_analyses = 2
    /\ Count("r2", "get_user_memory") = 1
    /\ memory["u2"] = PriorRow("u2")

\* ------------------------------------------------------------ C24

\* The telemetry source failed during the i-th call of run r: the fetch
\* raised, or a query of one of the three collections failed.
SourceFailed(r, i) ==
    /\ trace[r][i].op = "get_user_profile_context"
    /\ \/ trace[r][i].res = "raised"
       \/ trace[r][i].res = "ok" /\ trace[r][i].arg.errors # {}

\* C24 (as claimed): a failure of the telemetry source while any of the
\* three collections is fetched is TelemetryUnavailable: the run makes no
\* metric-analysis call and ends aborted, the failed collection is not handed
\* on as empty telemetry.
C24_SourceFailureAborts ==
    \A r \in Runs : \A i \in 1..Len(trace[r]) :
        SourceFailed(r, i) =>
            /\ Count(r, "analyze_user_health_metrics") = 0
            /\ user_context[r] = None
            /\ Returned(r) => pc[r] = "aborted"

\* ------------------------------------------------------------ C25

FormatOps == {"format_user_data_for_analysis", "format_user_data_for_behavior_analysis",
              "format_context_for_nutrition_planning", "format_context_for_routine_planning"}

\* C25 (as claimed): the request formatting of each adapter (metric,
\* behavior, nutrition, routine) is deterministic: two calls of the same
\* format function with identical input and upstream context give the
\* identical request.
C25_FormattingDeterministic ==
    \A r \in Runs : \A i, j \in 1..Len(trace[r]) :
        (/\ trace[r][i].op \in FormatOps
         /\ trace[r][j].op = trace[r][i].op
         /\ trace[r][j].arg = trace[r][i].arg)
            => trace[r][j].res = trace[r][i].res

\* The same holds when the behavior adapter is left out.
FormattingDeterministicExceptBehavior ==
    \A r \in Runs : \A i, j \in 1..Len(trace[r]) :
        (/\ trace[r][i].op \in FormatOps \ {"format_user_data_for_behavior_analysis"}
         /\ trace[r][j].op = trace[r][i].op
         /\ trace[r][j].arg = trace[r][i].arg)
            => trace[r][j].res = trace[r][i].res

\* ------------------------------------------------------------ C26

Columns == {archetype_columns[a] : a \in DOMAIN archetype_columns}

\* The call made in this step is update_archetype_routine_plan with a
\* recognized label, executed on the row of the caller's user.
ArchetypePlanStored(r) ==
    /\ Calls(r)
    /\ LastCall(r).op = "update_archetype_routine_plan"
    /\ LastCall(r).res = "ok"
    /\ KnownArchetype(LastCall(r).arg.archetype)
    /\ memory[profile_id[r]] # None

\* C26: the six labels map to six pairwise distinct columns;
\* update_archetype_routine_plan with a recognized label L writes exactly the
\* column of L, sets last_archetype to L and stamps the routine timestamp,
\* leaving the other five columns and the generic routine slot unchanged; and
\* last_archetype is always unset or one of the six labels.
C26_ArchetypePlanWritesOwnColumn ==
    /\ [](/\ Cardinality(DOMAIN archetype_columns) = 6
          /\ Cardinality(Columns) = 6
          /\ \A u \in Users :
                memory[u] # None =>
                    \/ memory[u].last_archetype = None
                    \/ KnownArchetype(memory[u].last_archetype))
    /\ [][\A r \in Runs :
            ArchetypePlanStored(r) =>
                LET u == profile_id[r]
                    L == LastCall(r).arg.archetype
                IN  /\ memory'[u].archetype_plans[column_name(L)] = LastCall(r).arg.value
                    /\ memory'[u].last_archetype = L
                    /\ memory'[u].routine_plan_date = clock
                    /\ \A c \in Columns \ {column_name(L)} :
                            memory'[u].archetype_plans[c] = memory[u].archetype_plans[c]
                    /\ memory'[u].last_routine_plan = memory[u].last_routine_plan]_vars

\* Two plans stored under two labels: each is in its own column, the label of
\* the second is recorded and a third column is still empty.
C26_Witness ==
    /\ memory["u1"] # None
    /\ memory["u1"].last_archetype = Str("Peak Performer")
    /\ memory["u1"].archetype_plans["peak_performer_plan"] # None
    /\ Count("r1", "update_archetype_routine_plan") = 2
    /\ trace["r1"][1].arg.archetype = Str("Connected Explorer")
    /\ memory["u1"].archetype_plans["connected_explorer_plan"] # None
    /\ memory["u1"].archetype_plans["foundation_builder_plan"] = None

\* ------------------------------------------------------------ C27

\* The columns each patch may write.
FieldGroup ==
    [update_nutrition_plan |-> {"last_nutrition_plan", "nutrition_plan_date"},
     update_behavior_analysis |-> {"last_behavior_analysis", "behavior_analysis_date"},
     update_routine_plan |-> {"last_routine_plan", "routine_plan_date"}]

AnalysisFields == {"last_analysis_result", "analysis_insights", "last_analysis_date"}

\* C27: each patch changes only the columns of its own group (nutrition,
\* behavior, generic routine): none of them changes the context maps, the
\* last-analysis columns or the analysis counter, and the counter changes
\* only through update_analysis_result.
C27_PatchesWriteOwnFields ==
    [][\A r \in Runs : \A u \in Users :
        Calls(r) =>
            /\ memory[u] = None => memory'[u] = None
            /\ memory[u] # None =>
                /\ LastCall(r).op \in DOMAIN FieldGroup =>
                    /\ \A f \in DOMAIN memory[u] \ FieldGroup[LastCall(r).op] :
                            memory'[u][f] = memory[u][f]
                    /\ \A f \in ContextMaps \cup AnalysisFields \cup {"total_analyses"} :
                            memory'[u][f] = memory[u][f]
                /\ memory'[u].total_analyses # memory[u].total_analyses =>
                    /\ LastCall(r).op = "update_analysis_result"
                    /\ u = profile_id[r]]_vars

\* The nutrition patch and the behavior patch have both been stored in a
\* record written by earlier runs: its narrative and its counter are the ones
\* it started with.
C27_Witness ==
    /\ memory["u1"] # None
    /\ memory["u1"].last_nutrition_plan # None
    /\ memory["u1"].last_behavior_analysis # None
    /\ memory["u1"].health_goals = {"sleep"}
    /\ memory["u1"].last_analysis_result = PriorNarrative
    /\ memory["u1"].total_analyses = 1

\* ------------------------------------------------------------ C28

SameUser == profile_id["r1"] = profile_id["r2"]

\* The record of a user as it was when the runs started: when both runs are
\* for u1, no step touches the record of u2, which started in the same shape.
InitialCount == IF memory["u2"] = None THEN NewRow("u1", {}, {}, {}, {}, {}).total_analyses
                ELSE PriorRow("u1").total_analyses

\* The successful update_analysis_result calls of both runs.
Applied == UNION {{<<r, i>> : i \in Written(r, "update_analysis_result")} : r \in Runs}

\* C28: two overlapping runs for the same user that each complete a
\* successful update_analysis_result leave, under any interleaving, the
\* counter exactly 2 higher than it was (in general: higher by the number of
\* successful patches), and the last-analysis text and the insights stored
\* are those of one and the same patch.
C28_ConcurrentPatchesCount ==
    (SameUser /\ memory["u1"] # None) =>
        LET m == memory["u1"]
        IN  /\ m.total_analyses = InitialCount + Cardinality(Applied)
            /\ Applied # {} =>
                \E r \in Runs :
                    /\ Written(r, "update_analysis_result") # {}
                    /\ m.last_analysis_result = analysis_result[r]
                    /\ m.analysis_insights = AnalysisInsights(user_context[r])

\* Both runs read the record before either patched it, both patched it and
\* ended normally: the counter went from 1 to 3 and the record holds the text
\* and the 7-day insights of the first run, which patched last.
C28_Witness ==
    /\ SameUser
    /\ \A r \in Runs : pc[r] = "done" /\ Written(r, "update_analysis_result") # {}
    /\ \A r \in Runs : user_memory[r] # None /\ user_memory[r].total_analyses = 1
    /\ memory["u1"].total_analyses = 3
    /\ memory["u1"].last_analysis_result = MetricReply("r1")
    /\ memory["u1"].analysis_insights.days = "7"

\* ------------------------------------------------------------ C29

\* C29 (as claimed): every run that opened a store connection closes it
\* before run_analysis returns, on every exit path (normal completion, abort
\* at the fetch, abort at the metric analysis).
C29_ConnectionClosedOnReturn ==
    \A r \in Runs :
        (returned[r] # Running /\ connection[r] # None) =>
            \E i \in Idx(r, "disconnect") : trace[r][i].res = "ok"

\* The same for the runs that end normally, allowing for a close that fails.
ConnectionClosedOnNormalReturn ==
    \A r \in Runs :
        (pc[r] = "done" /\ connection[r] # None) => Count(r, "disconnect") = 1

\* ------------------------------------------------------------ C30

\* The streams that have started a subprocess and have not ended.
InProgress == {s \in Streams : process[s] # None /\ stream_pc[s] # "closed"}

\* C30: every subprocess entered into active_processes is terminated or
\* killed (unless it had exited by itself) and removed from the registry when
\* its stream ends, whether the subprocess exited with 0, with an error code,
\* or the stream ended in a server error; so under every interleaving of
\* concurrent streams the registry holds exactly the subprocesses of the
\* streams in progress, and it is empty when no stream is in progress.
C30_RegistryHoldsStreamsInProgress ==
    /\ active_processes = InProgress
    /\ get_status.active_processes = Cardinality(InProgress)
    /\ \A s \in Streams :
        (stream_pc[s] = "closed" /\ process[s] # None) =>
            /\ s \notin active_processes
            /\ process[s].state \in {"exited", "terminated", "killed"}

\* One stream has ended while its subprocess was still running, which was
\* killed; the other is still reading the output of its subprocess: the
\* registry holds the second only.
C30_Witness ==
    /\ stream_pc["s1"] = "closed" /\ process["s1"] # None /\ process["s1"].state = "killed"
    /\ stream_pc["s2"] = "reading" /\ sent["s2"] = 1
    /\ active_processes = {"s2"}

\* Both streams have ended, one after an error code of its subprocess, and
\* the registry is empty.
AllStreamsEnded ==
    /\ \A s \in Streams : stream_pc[s] = "closed"
    /\ process["s1"] # None /\ process["s1"].state = "exited" /\ process["s1"].returncode = 1
    /\ active_processes = {}

=========================================================================
